---------------------------- MODULE Spec2Model ----------------------------
(* Push intake endpoint (app/routers/webhooks.py), its background unit of  *)
(* work, and the Firestore message ledger (app/services/message_tracker.py) *)
(* of the Interior AI Service.                                              *)
EXTENDS Integers, Sequences, FiniteSets, Bags, TLC

\* ---------------------------------------------------------------- bounds
MaxDeliveries == 3      \* push deliveries handled in one run
MaxCalls == 5           \* ledger calls started in one run
MaxClock == 2           \* ticks of the UTC clock in one run
MaxRequests == 3        \* deliveries in flight at once in one process
MaxRetryCount == 4      \* mark_failed calls on one EmailStatus

\* ------------------------------------------------------ program constants
MAX_ENDPOINT_RETRIES == 3
MAX_ATTEMPTS == 5
HTTP_204_NO_CONTENT == 204
HTTP_400_BAD_REQUEST == 400
HTTP_500_INTERNAL_SERVER_ERROR == 500
DEFAULT_MAX_RETRIES == 3        \* email_models.EmailStatus.max_retries default

\* ------------------------------------------------------------ input sets
\* messageId values the upstream assigns; a delivery may also carry none
AssignedIds == {"m1"}
NoId == "absent"
MsgIds == AssignedIds \cup {"unknown"}
\* processes (instances, workers) that call the ledger
Procs == {"p1", "p2", "p3"}

\* JSON values a decoded payload can be: data is <<>> or <<inner value>>
FormFields == [type |-> "dict", fields |-> "form", data |-> <<>>]
Wrapped == [type |-> "dict", fields |-> "meta", data |-> <<FormFields>>]
ListValue == [type |-> "list", fields |-> "none", data |-> <<>>]
ScalarValue == [type |-> "scalar", fields |-> "none", data |-> <<>>]
\* form fields given directly, one of them named "data" (a number)
FormWithDataField == [type |-> "dict", fields |-> "form", data |-> <<ScalarValue>>]
JsonValues == {FormFields, Wrapped, ListValue, ScalarValue, FormWithDataField}

\* The "data" member of the envelope's message, by encoding layer:
\*   enc   how the member itself looks (absent/empty, a string that is not
\*         ASCII, a string that is not base64, well-formed base64)
\*   bytes whether the decoded bytes are UTF-8
\*   text  whether the decoded text is JSON
DataInputs ==
    {[enc |-> "absent", bytes |-> "none", text |-> "none", value |-> ScalarValue],
     [enc |-> "non_ascii", bytes |-> "none", text |-> "none", value |-> ScalarValue],
     [enc |-> "bad_base64", bytes |-> "none", text |-> "none", value |-> ScalarValue],
     [enc |-> "base64", bytes |-> "bad_utf8", text |-> "none", value |-> ScalarValue],
     [enc |-> "base64", bytes |-> "utf8", text |-> "bad_json", value |-> ScalarValue]}
    \cup {[enc |-> "base64", bytes |-> "utf8", text |-> "json", value |-> v] : v \in JsonValues}

\* Request bodies: not JSON at all, JSON that is not an envelope object,
\* or an envelope with an optional messageId and a data member
Bodies ==
    {[kind |-> "not_json", messageId |-> NoId, data |-> d] : d \in {CHOOSE x \in DataInputs : x.enc = "absent"}}
    \cup {[kind |-> "not_object", messageId |-> NoId, data |-> d] : d \in {CHOOSE x \in DataInputs : x.enc = "absent"}}
    \cup [kind : {"envelope"}, messageId : AssignedIds \cup {NoId}, data : DataInputs]

VARIABLES
    endpoint_retry_counts,  \* webhooks.endpoint_retry_counts (dict: id -> count)
    tasks,                  \* bag of background invocations scheduled and not finished
    resp,                   \* response to the last delivery handled
    deliveries,             \* number of deliveries handled
    done,                   \* ids whose unit of work has completed successfully
    aiCalls,                \* id -> AI generation calls made
    emailSends,             \* id -> email sends made
    consecFail,             \* id -> consecutive non-success responses
    ledger,                 \* Firestore collection pubsub_messages (dict: id -> document)
    ledgerUp,               \* whether the Firestore store is reachable
    call,                   \* per process: the check_and_increment transaction in flight
    lastResult,             \* per process: outcome of its last completed ledger call
    calls,                  \* number of ledger calls started
    marked,                 \* ids for which a mark_processed has completed
    retCount,               \* id -> check_and_increment calls that returned an attempt number
    retSet,                 \* id -> attempt numbers returned
    clock,                  \* the UTC time the last datetime.now call returned
    deps,                   \* the settings and the condition of the external services
    health_status,          \* body of the last GET /health/readiness response
    inflight,               \* per request: the handler invocation serving it
    email_status            \* an EmailStatus object (email_models.EmailStatus)

endpointVars == <<endpoint_retry_counts, tasks, resp, deliveries, done, aiCalls, emailSends, consecFail>>
ledgerVars == <<ledger, ledgerUp, call, lastResult, calls, marked, retCount, retSet, clock>>
healthVars == <<deps, health_status>>
handlerVars == <<inflight>>
emailVars == <<email_status>>
vars == <<endpointVars, ledgerVars, healthVars, handlerVars, emailVars>>

\* ------------------------------------------------------- dict operations
\* A Python dict is a function whose DOMAIN is the set of keys present.
EmptyDict == [k \in {} |-> 0]
DictSet(d, k, v) == [x \in (DOMAIN d) \cup {k} |-> IF x = k THEN v ELSE d[x]]
DictPop(d, k) == [x \in (DOMAIN d) \ {k} |-> d[x]]

\* ------------------------------------------- endpoint retry counter helpers
get_endpoint_retry_count(counts, message_id) ==
    IF message_id \in DOMAIN counts THEN counts[message_id] ELSE 0

\* the dict after increment_endpoint_retry_count; the new count is
\* get_endpoint_retry_count of the result
increment_endpoint_retry_count(counts, message_id) ==
    DictSet(counts, message_id, get_endpoint_retry_count(counts, message_id) + 1)

clear_endpoint_retry_count_Keep(counts, message_id) == counts

clear_endpoint_retry_count(counts, message_id) == DictPop(counts, message_id)

\* ------------------------------------------------------ envelope decoding
\* message_data.get("messageId", "unknown")
MessageIdOf_NoDefault(body) == body.messageId
MessageIdOf(body) == IF body.messageId = NoId THEN "unknown" ELSE body.messageId

\* Lines 82-94: what reading and decoding the data member ends in.
\*   no_data       HTTPException(400) "No data in message"
\*   decode_error  binascii.Error / UnicodeDecodeError / JSONDecodeError,
\*                 turned into HTTPException(400)
\*   exception     any other exception of b64decode (ValueError for a
\*                 non-ASCII string), which the inner except does not catch
\*   ok            the parsed JSON value
DecodeData(data) ==
    IF data.enc = "absent" THEN [outcome |-> "no_data", value |-> ScalarValue]
    ELSE IF data.enc = "non_ascii" THEN [outcome |-> "exception", value |-> ScalarValue]
    ELSE IF data.enc = "bad_base64" THEN [outcome |-> "decode_error", value |-> ScalarValue]
    ELSE IF data.bytes = "bad_utf8" THEN [outcome |-> "decode_error", value |-> ScalarValue]
    ELSE IF data.text = "bad_json" THEN [outcome |-> "decode_error", value |-> ScalarValue]
    ELSE [outcome |-> "ok", value |-> data.value]

\* Lines 97-98: if "data" in client_data: client_data = client_data["data"].
\* The membership test raises TypeError on a value that is no container.
UnwrapRaises(v) == v.type = "scalar"
Unwrap(v) == IF v.type = "dict" /\ v.data # <<>> THEN v.data[1] ELSE v

\* ------------------------------------------------------- the push handler
\* The except-Exception path (lines 135-153) for a bound message_id.
ExceptionPath_KeepAtLimit(counts, message_id) ==
    LET incremented == increment_endpoint_retry_count(counts, message_id)
        new_endpoint_count == get_endpoint_retry_count(incremented, message_id)
    IN IF new_endpoint_count >= MAX_ENDPOINT_RETRIES
       THEN [status |-> HTTP_204_NO_CONTENT, counts |-> incremented, schedule |-> <<>>]
       ELSE [status |-> HTTP_500_INTERNAL_SERVER_ERROR,
             counts |-> incremented,
             schedule |-> <<>>]

ExceptionPath(counts, message_id) ==
    LET incremented == increment_endpoint_retry_count(counts, message_id)
        new_endpoint_count == get_endpoint_retry_count(incremented, message_id)
    IN IF new_endpoint_count >= MAX_ENDPOINT_RETRIES
       THEN [status |-> HTTP_204_NO_CONTENT,
             counts |-> clear_endpoint_retry_count(incremented, message_id),
             schedule |-> <<>>]
       ELSE [status |-> HTTP_500_INTERNAL_SERVER_ERROR,
             counts |-> incremented,
             schedule |-> <<>>]

\* Lines 83-84 and 90-94 with 129-131: the HTTPException(400) raised for a
\* missing or undecodable data member is re-raised as it is
DecodeFailureOutcome_Ack(counts) ==
    [status |-> HTTP_204_NO_CONTENT, counts |-> counts, schedule |-> <<>>]
DecodeFailureOutcome(counts) ==
    [status |-> HTTP_400_BAD_REQUEST, counts |-> counts, schedule |-> <<>>]

\* Lines 58 and 132-134: json.loads(body) raises JSONDecodeError
InvalidBodyOutcome_Ack(counts) ==
    [status |-> HTTP_204_NO_CONTENT, counts |-> counts, schedule |-> <<>>]
InvalidBodyOutcome(counts) ==
    [status |-> HTTP_400_BAD_REQUEST, counts |-> counts, schedule |-> <<>>]

\* handle_pubsub_push_notification as a function of the request body and
\* the retry dict: the status answered, the dict afterwards and the
\* client_data handed to background_tasks.add_task (<<>> when none).
HandleOutcome(body, counts) ==
    IF body.kind = "not_json"
    THEN InvalidBodyOutcome(counts)
    ELSE IF body.kind = "not_object"
    THEN \* .get raises AttributeError before message_id is bound; the
         \* handler at line 139 then raises UnboundLocalError, which the
         \* error middleware answers with 500
         [status |-> HTTP_500_INTERNAL_SERVER_ERROR, counts |-> counts, schedule |-> <<>>]
    ELSE
      LET message_id == MessageIdOf(body)
          current_endpoint_retries == get_endpoint_retry_count(counts, message_id)
          decoded == DecodeData(body.data)
      IN IF current_endpoint_retries >= MAX_ENDPOINT_RETRIES
         THEN [status |-> HTTP_204_NO_CONTENT,
               counts |-> clear_endpoint_retry_count(counts, message_id),
               schedule |-> <<>>]
         ELSE IF decoded.outcome \in {"no_data", "decode_error"}
         THEN DecodeFailureOutcome(counts)
         ELSE IF decoded.outcome = "exception" \/ UnwrapRaises(decoded.value)
         THEN ExceptionPath(counts, message_id)
         ELSE [status |-> HTTP_204_NO_CONTENT,
               counts |-> clear_endpoint_retry_count(counts, message_id),
               schedule |-> <<Unwrap(decoded.value)>>]

\* A success status acknowledges the message ("Return 204 No Content to
\* acknowledge the message"); any other status makes Pub/Sub redeliver
\* ("return 500 for Pub/Sub retry").
IsAck(status) == status \in 200..299

\* A background invocation: ai counts its AI generation calls, profile says
\* whether generate_client_profile has returned a profile to it
NewTask(message_id, client_data) ==
    [mid |-> message_id, client_data |-> client_data, pc |-> "queued",
     afterDone |-> message_id \in done, ai |-> 0, profile |-> FALSE]

handle_pubsub_push_notification(body) ==
    /\ deliveries < MaxDeliveries
    /\ LET out == HandleOutcome(body, endpoint_retry_counts)
           message_id == MessageIdOf(body)
       IN /\ endpoint_retry_counts' = out.counts
          /\ tasks' = IF out.schedule = <<>> THEN tasks
                      ELSE tasks (+) SetToBag({NewTask(message_id, out.schedule[1])})
          /\ resp' = [body |-> body, status |-> out.status,
                      scheduled |-> out.schedule # <<>>, storeUp |-> ledgerUp]
          /\ consecFail' = IF body.kind # "envelope" THEN consecFail
                           ELSE [consecFail EXCEPT ![message_id] =
                                    IF IsAck(out.status) THEN 0 ELSE @ + 1]
    /\ deliveries' = deliveries + 1
    /\ UNCHANGED <<done, aiCalls, emailSends, ledgerVars, healthVars, handlerVars, emailVars>>

\* ------------------------------------------------- background processor
\* process_client_profile_generation runs detached from the response. Its
\* steps are separate actions because instances run them concurrently;
\* each step is taken by any one of the invocations in flight.
FinishTask(t) == tasks (-) SetToBag({t})
StepTask(t, u) == (tasks (-) SetToBag({t})) (+) SetToBag({u})
AdvanceTask(t, pc) == StepTask(t, [t EXCEPT !.pc = pc])

\* client_data.keys() (line 173) raises on anything that is not a mapping
KeysRaises(client_data) == client_data.type # "dict"

\* An exception raised at a step passes the except clauses around it: the
\* callback's clause logs and re-raises (lines 224-230), so does the one of
\* process_message_callback (pubsub_service 375-381), and the clause of
\* process_client_profile_generation logs and falls through (lines 235-242).
\* Each maps the exception it catches to the one that leaves it.
NoException == "none"
CallbackHandler(exc) == exc
ServiceHandler(exc) == exc
OuterHandler_Reraise(exc) == exc
OuterHandler(exc) == NoException

\* The steps that can raise, and the exception that leaves the invocation
StartFailures == {"lookup", "normalize", "from_raw_data"}
Escaping(step) ==
    IF step \in {"keys", "lookup"} THEN OuterHandler(step)
    ELSE IF step = "normalize" THEN OuterHandler(ServiceHandler(step))
    ELSE OuterHandler(ServiceHandler(CallbackHandler(step)))

\* The invocation ends at a failed step: it returns, or the exception
\* leaves it and reaches the task runner
FailTask(t, step) ==
    IF Escaping(step) = NoException THEN FinishTask(t)
    ELSE StepTask(t, [t EXCEPT !.pc = "raised"])

\* Outcomes of a step that calls an external service: it succeeds, it
\* raises before the call is made (service construction, prompt or report
\* creation), or the call is made and it or what follows it raises
StepOutcomes == {"ok", "before", "failed"}

\* Lines 169-188 and process_message_callback: start, service lookup,
\* normalize (process_client_form_message) and ClientFormData.from_raw_data.
BgNormalize(failure) ==
    /\ \E t \in BagToSet(tasks) :
        /\ t.pc = "queued"
        /\ tasks' = IF KeysRaises(t.client_data) THEN FailTask(t, "keys")
                    ELSE IF failure # NoException THEN FailTask(t, failure)
                    ELSE AdvanceTask(t, "normalized")
    /\ UNCHANGED <<endpoint_retry_counts, resp, deliveries, done, aiCalls,
                   emailSends, consecFail, ledgerVars, healthVars, handlerVars, emailVars>>

\* genai_service.generate_client_profile (genai_service 51-69) makes one
\* call of _generate_ai_response and hands every exception on
GenerateOutcome_Retry(t, outcome) ==
    IF outcome = "ok"
    THEN StepTask(t, [t EXCEPT !.pc = "generated", !.ai = @ + 1, !.profile = TRUE])
    ELSE IF outcome = "before" THEN FailTask(t, "generate")
    ELSE StepTask(t, [t EXCEPT !.ai = @ + 1])
GenerateOutcome(t, outcome) ==
    IF outcome = "ok"
    THEN StepTask(t, [t EXCEPT !.pc = "generated", !.ai = @ + 1, !.profile = TRUE])
    ELSE FailTask(t, "generate")

\* Lines 196-198: genai_service.generate_client_profile, called once
BgGenerate(outcome) ==
    /\ \E t \in BagToSet(tasks) :
        /\ t.pc = "normalized"
        /\ aiCalls' = IF outcome = "before" THEN aiCalls
                      ELSE [aiCalls EXCEPT ![t.mid] = @ + 1]
        /\ tasks' = GenerateOutcome(t, outcome)
    /\ UNCHANGED <<endpoint_retry_counts, resp, deliveries, done,
                   emailSends, consecFail, ledgerVars, healthVars, handlerVars, emailVars>>

\* Line 208 follows line 198 in the callback: the report is sent by an
\* invocation whose generate_client_profile call has returned
ReadyToSend_Unordered(t) == t.pc \in {"normalized", "generated"}
ReadyToSend(t) == t.pc = "generated"

\* Lines 206-242: email_service.send_profile_report, called once
\* (email_service 219-258: one call of _send_email); on success the
\* completion is logged and the invocation returns. The ledger is not
\* written on any outcome.
BgSend(outcome) ==
    /\ \E t \in BagToSet(tasks) :
        /\ ReadyToSend(t)
        /\ emailSends' = IF outcome = "before" THEN emailSends
                         ELSE [emailSends EXCEPT ![t.mid] = @ + 1]
        /\ done' = IF outcome = "ok" THEN done \cup {t.mid} ELSE done
        /\ tasks' = IF outcome = "ok" THEN FinishTask(t) ELSE FailTask(t, "send")
    /\ UNCHANGED <<endpoint_retry_counts, resp, deliveries, aiCalls,
                   consecFail, ledgerVars, healthVars, handlerVars, emailVars>>

\* A process restart: the module-level dict is re-created empty (line 22)
\* and the background work held in memory is lost.
Restart ==
    /\ endpoint_retry_counts # EmptyDict \/ tasks # EmptyBag
    /\ endpoint_retry_counts' = EmptyDict
    /\ tasks' = EmptyBag
    /\ UNCHANGED <<resp, deliveries, done, aiCalls, emailSends, consecFail, ledgerVars, healthVars, handlerVars, emailVars>>

\* ------------------------------------------- deliveries handled at once
\* The handler is a coroutine of one event loop: it runs until it awaits.
\* Its only await is request.body() (line 56); the counter helpers, the
\* decoding and add_task are plain calls. A delivery is therefore served in
\* two turns of the loop, and turns of other deliveries run in between.
Requests == 1..MaxRequests

\* The delivery takes the except-Exception path: decoding the data member
\* or the membership test of line 97 raises something that is no
\* HTTPException
TakesExceptionPath(body) ==
    /\ body.kind = "envelope"
    /\ LET decoded == DecodeData(body.data)
       IN \/ decoded.outcome = "exception"
          \/ decoded.outcome = "ok" /\ UnwrapRaises(decoded.value)

FailingBodies == {b \in Bodies : TakesExceptionPath(b)}

NoRequest ==
    [pc |-> "new", body |-> CHOOSE b \in Bodies : b.kind = "not_json",
     atEntry |-> EmptyDict, status |-> 0, new_count |-> 0]

\* The dict the handler reads at line 63 is the dict as it is when the
\* handler resumes after line 56, not as it was when the handler was entered
CountsRead_BeforeAwait(atEntry, atResume) == atEntry

CountsRead(atEntry, atResume) == atResume

\* Lines 39-56: the handler is entered and suspends in await request.body()
ReceiveDelivery(r, body) ==
    /\ inflight[r].pc = "new"
    /\ inflight' = [inflight EXCEPT ![r] =
            [pc |-> "awaiting_body", body |-> body, atEntry |-> endpoint_retry_counts,
             status |-> 0, new_count |-> 0]]
    /\ UNCHANGED <<endpointVars, ledgerVars, healthVars, emailVars>>

\* Lines 56-153: the handler resumes with the body and runs to its answer;
\* new_count is the count line 139 gets back from the increment
ResumeHandler(r) ==
    /\ inflight[r].pc = "awaiting_body"
    /\ LET body == inflight[r].body
           message_id == MessageIdOf(body)
           counts == CountsRead(inflight[r].atEntry, endpoint_retry_counts)
           out == HandleOutcome(body, counts)
       IN /\ endpoint_retry_counts' = out.counts
          /\ tasks' = IF out.schedule = <<>> THEN tasks
                      ELSE tasks (+) SetToBag({NewTask(message_id, out.schedule[1])})
          /\ inflight' = [inflight EXCEPT ![r] =
                [@ EXCEPT !.pc = "done", !.status = out.status,
                          !.new_count =
                              IF TakesExceptionPath(body)
                              THEN get_endpoint_retry_count(
                                       increment_endpoint_retry_count(counts, message_id),
                                       message_id)
                              ELSE 0]]
    /\ UNCHANGED <<resp, deliveries, done, aiCalls, emailSends, consecFail,
                   ledgerVars, healthVars, emailVars>>

\* ------------------------------------------------------------ EmailStatus
\* An EmailStatus: status, retry_count, max_retries, whether sent_at and
\* delivered_at are set, and the error message ("none" when None)
ErrorMessages == {"SMTP error"}

\* EmailStatus objects as constructed: status pending, or sent with sent_at
\* (email_service.py 234-241); retry_count 0; max_retries up to its default
EmailStatusInputs ==
    {[status |-> st, retry_count |-> 0, max_retries |-> mr, sent_at |-> st = "sent",
      delivered_at |-> FALSE, error_message |-> "none"] :
        st \in {"pending", "sent"}, mr \in 0..DEFAULT_MAX_RETRIES}

is_final_status(self) ==
    self.status \in {"delivered", "failed"} /\ self.retry_count >= self.max_retries

mark_sent ==
    /\ email_status' = [email_status EXCEPT !.status = "sent", !.sent_at = TRUE]
    /\ UNCHANGED <<endpointVars, ledgerVars, healthVars, handlerVars>>

mark_delivered ==
    /\ email_status' = [email_status EXCEPT !.status = "delivered", !.delivered_at = TRUE]
    /\ UNCHANGED <<endpointVars, ledgerVars, healthVars, handlerVars>>

mark_failed(error_message) ==
    /\ email_status.retry_count < MaxRetryCount
    /\ email_status' = [email_status EXCEPT !.status = "failed",
                                            !.error_message = error_message,
                                            !.retry_count = @ + 1]
    /\ UNCHANGED <<endpointVars, ledgerVars, healthVars, handlerVars>>

\* ------------------------------------------------------------ the ledger
\* A document of collection pubsub_messages. version counts the writes to
\* the document (Firestore's update_time); an absent document has version 0.
DocVersion(store, message_id) ==
    IF message_id \in DOMAIN store THEN store[message_id].version ELSE 0

\* A transaction commits only if the document it read has not been written
\* since (ref.get(transaction=transaction) under @firestore.transactional).
TxnConflict_Unchecked(readVer, curVer) == FALSE
TxnConflict(readVer, curVer) == readVer # curVer

NoResult == [op |-> "none", mid |-> "unknown", outcome |-> "none", value |-> 0, afterMark |-> FALSE]
IdleCall == [pc |-> "idle", mid |-> "unknown", attempts |-> 0, readVer |-> 0, afterMark |-> FALSE]
Result(op, message_id, outcome, value, afterMark) ==
    [op |-> op, mid |-> message_id, outcome |-> outcome, value |-> value, afterMark |-> afterMark]

\* The return of -1 (lines 55-57) comes before any transaction.update or
\* transaction.set: the document is as the snapshot found it
AfterAlreadyDone_Touch(store, message_id) ==
    [store EXCEPT ![message_id] =
        [@ EXCEPT !.attempts = @ + 1, !.version = @ + 1]]

AfterAlreadyDone(store, message_id) == store

\* One run of _update up to its write (lines 52-57, 63-64): the store is
\* unreachable, or the snapshot says processed and -1 is returned, or the
\* write is staged for commit.
RunUpdate(p, message_id, afterMark) ==
    IF ~ledgerUp
    THEN /\ call' = [call EXCEPT ![p] = IdleCall]
         /\ lastResult' = [lastResult EXCEPT ![p] =
                Result("check_and_increment", message_id, "raised", 0, afterMark)]
         /\ UNCHANGED ledger
    ELSE IF message_id \in DOMAIN ledger /\ ledger[message_id].status = "processed"
    THEN /\ call' = [call EXCEPT ![p] = IdleCall]
         /\ lastResult' = [lastResult EXCEPT ![p] =
                Result("check_and_increment", message_id, "returned", -1, afterMark)]
         /\ ledger' = AfterAlreadyDone(ledger, message_id)
    ELSE /\ UNCHANGED ledger
         /\ call' = [call EXCEPT ![p] =
                [pc |-> "commit", mid |-> message_id,
                 attempts |-> IF message_id \in DOMAIN ledger
                              THEN ledger[message_id].attempts + 1 ELSE 1,
                 readVer |-> DocVersion(ledger, message_id),
                 afterMark |-> afterMark]]
         /\ UNCHANGED lastResult

\* check_and_increment is called and _update runs for the first time
check_and_increment(p, message_id) ==
    /\ call[p].pc = "idle"
    /\ calls < MaxCalls
    /\ calls' = calls + 1
    /\ RunUpdate(p, message_id, message_id \in marked)
    /\ UNCHANGED <<ledgerUp, marked, retCount, retSet, clock, endpointVars, healthVars, handlerVars, emailVars>>

\* The write _update staged: transaction.update of the fields attempts and
\* status when the snapshot existed (lines 58-62), transaction.set of a new
\* document otherwise (lines 65-70). created_at and updated_at are read by
\* no operation and are left out; processed_at is absent (<<>>) or <<t>>.
StagedWrite(store, message_id, readVer, attempts) ==
    IF readVer > 0 /\ message_id \in DOMAIN store
    THEN [store[message_id] EXCEPT !.attempts = attempts, !.status = "processing",
                                   !.version = @ + 1]
    ELSE [attempts |-> attempts, status |-> "processing",
          version |-> DocVersion(store, message_id) + 1, processed_at |-> <<>>]

\* The transaction commits (lines 58-62, 65-71, return at 71/73): the
\* write is applied and the attempt number returned ...
CommitUpdate(p) ==
    /\ call[p].pc = "commit"
    /\ ledgerUp
    /\ ~TxnConflict(call[p].readVer, DocVersion(ledger, call[p].mid))
    /\ ledger' = DictSet(ledger, call[p].mid,
                    StagedWrite(ledger, call[p].mid, call[p].readVer, call[p].attempts))
    /\ lastResult' = [lastResult EXCEPT ![p] =
            Result("check_and_increment", call[p].mid, "returned",
                   call[p].attempts, call[p].afterMark)]
    /\ retCount' = [retCount EXCEPT ![call[p].mid] = @ + 1]
    /\ retSet' = [retSet EXCEPT ![call[p].mid] = @ \cup {call[p].attempts}]
    /\ call' = [call EXCEPT ![p] = IdleCall]
    /\ UNCHANGED <<ledgerUp, calls, marked, clock, endpointVars, healthVars, handlerVars, emailVars>>

\* ... or the document was written since the read and _update runs again
RetryUpdate(p) ==
    /\ call[p].pc = "commit"
    /\ ledgerUp
    /\ TxnConflict(call[p].readVer, DocVersion(ledger, call[p].mid))
    /\ RunUpdate(p, call[p].mid, call[p].afterMark)
    /\ UNCHANGED <<ledgerUp, calls, marked, retCount, retSet, clock, endpointVars, healthVars, handlerVars, emailVars>>

\* A transaction that is not committed applies none of its staged writes:
\* transaction.update / transaction.set only buffer the write, the store
\* applies the buffer atomically at commit
AfterAbort_Partial(store, message_id, readVer, attempts) ==
    DictSet(store, message_id, StagedWrite(store, message_id, readVer, attempts))

AfterAbort(store, message_id, readVer, attempts) == store

\* ... or the call raises: the store is unreachable at commit, or the
\* document changed and the transaction gives up instead of running again
AbortUpdate(p) ==
    /\ call[p].pc = "commit"
    /\ ~ledgerUp \/ TxnConflict(call[p].readVer, DocVersion(ledger, call[p].mid))
    /\ ledger' = AfterAbort(ledger, call[p].mid, call[p].readVer, call[p].attempts)
    /\ call' = [call EXCEPT ![p] = IdleCall]
    /\ lastResult' = [lastResult EXCEPT ![p] =
            Result("check_and_increment", call[p].mid, "raised", 0, call[p].afterMark)]
    /\ UNCHANGED <<ledgerUp, calls, marked, retCount, retSet, clock, endpointVars, healthVars, handlerVars, emailVars>>

\* datetime.now(timezone.utc) returns the time of the last reading or a
\* later one
Nows == {t \in {clock, clock + 1} : t <= MaxClock}

\* DocumentReference.update writes to an existing document only: for a
\* missing document it raises NotFound and creates nothing
UpdateTargetExists_Upsert(store, message_id) == TRUE

UpdateTargetExists(store, message_id) == message_id \in DOMAIN store

\* mark_processed: one document update that writes status and processed_at
\* (now is what datetime.now returns); it raises when the store is
\* unreachable or the document does not exist (update never creates)
mark_processed(p, message_id) ==
    /\ call[p].pc = "idle"
    /\ calls < MaxCalls
    /\ calls' = calls + 1
    /\ IF ledgerUp /\ UpdateTargetExists(ledger, message_id)
       THEN /\ \E now \in Nows :
                /\ ledger' = [ledger EXCEPT ![message_id] =
                        [@ EXCEPT !.status = "processed", !.processed_at = <<now>>,
                                  !.version = @ + 1]]
                /\ clock' = now
            /\ marked' = marked \cup {message_id}
            /\ lastResult' = [lastResult EXCEPT ![p] =
                    Result("mark_processed", message_id, "returned", 0, message_id \in marked)]
       ELSE /\ lastResult' = [lastResult EXCEPT ![p] =
                    Result("mark_processed", message_id, "raised", 0, message_id \in marked)]
            /\ UNCHANGED <<ledger, marked, clock>>
    /\ UNCHANGED <<ledgerUp, call, retCount, retSet, endpointVars, healthVars, handlerVars, emailVars>>

\* The store becomes unreachable / reachable again
StoreFail ==
    /\ ledgerUp
    /\ ledgerUp' = FALSE
    /\ UNCHANGED <<ledger, call, lastResult, calls, marked, retCount, retSet, clock, endpointVars, healthVars, handlerVars, emailVars>>

StoreRecover ==
    /\ ~ledgerUp
    /\ ledgerUp' = TRUE
    /\ UNCHANGED <<ledger, call, lastResult, calls, marked, retCount, retSet, clock, endpointVars, healthVars, handlerVars, emailVars>>

\* ------------------------------------------------------- readiness check
\* The settings read by readiness_check. A string setting may be empty
\* (smtp_username and smtp_password may be None), both falsy in Python and
\* written ""; Settings validates environment and smtp_port (config.py
\* 60-84), so these always hold a valid value.
GoodSettings ==
    [google_cloud_project |-> "my-project", smtp_username |-> "user",
     smtp_password |-> "secret", designer_email |-> "designer@example.com",
     vertex_ai_location |-> "us-central1", genai_model |-> "gemini",
     pubsub_topic |-> "topic", pubsub_subscription |-> "subscription",
     smtp_server |-> "smtp.example.com", smtp_port |-> 587,
     environment |-> "production"]
SettingsInputs ==
    {GoodSettings}
    \cup {[GoodSettings EXCEPT ![f] = ""] :
            f \in DOMAIN GoodSettings \ {"smtp_port", "environment"}}
    \cup {[GoodSettings EXCEPT !.environment = "development"],
          [GoodSettings EXCEPT !.environment = "staging"],
          [GoodSettings EXCEPT !.google_cloud_project = "your-project-id"]}
Truthy(v) == v # ""
TruthyInt(n) == n # 0

\* What run_authentication_tests reports (utils/auth.py 208-223) and what
\* constructing a service and calling its test_connection gives: the
\* status of the dict returned, or an exception from the constructor
AuthResults == {"healthy", "partial", "unhealthy", "raises"}
ConnectionResults == {"connected", "error", "raises"}
DepsInputs ==
    [settings : SettingsInputs, auth : AuthResults, genai : ConnectionResults,
     email : ConnectionResults, pubsub : ConnectionResults]

HealthyIf(ok) == IF ok THEN "healthy" ELSE "unhealthy"
ErrorCheck == "error: exception"

\* Lines 128-136 (and 139-147, 150-158): the check is the "status" member
\* of what test_connection returned
ConnectionCheck(result) == IF result = "raises" THEN ErrorCheck ELSE result

\* health_status["checks"] as lines 42-158 fill it
ReadinessChecks(d) ==
    LET settings == d.settings IN
    [configuration |-> HealthyIf(
        /\ Truthy(settings.google_cloud_project) /\ Truthy(settings.smtp_username)
        /\ Truthy(settings.smtp_password) /\ Truthy(settings.designer_email)),
     google_cloud_project |-> HealthyIf(
        /\ Truthy(settings.google_cloud_project)
        /\ settings.google_cloud_project # "your-project-id"),
     vertex_ai_config |-> HealthyIf(
        Truthy(settings.vertex_ai_location) /\ Truthy(settings.genai_model)),
     pubsub_config |-> HealthyIf(
        Truthy(settings.pubsub_topic) /\ Truthy(settings.pubsub_subscription)),
     email_config |-> HealthyIf(
        /\ Truthy(settings.smtp_server) /\ TruthyInt(settings.smtp_port)
        /\ Truthy(settings.smtp_username) /\ Truthy(settings.smtp_password)
        /\ Truthy(settings.designer_email)),
     environment |-> HealthyIf(
        settings.environment \in {"development", "staging", "production"}),
     google_cloud_auth |->
        IF d.auth = "raises" THEN ErrorCheck
        ELSE IF d.auth \in {"healthy", "partial"} THEN d.auth ELSE "unhealthy",
     genai_service |-> ConnectionCheck(d.genai),
     email_service |-> ConnectionCheck(d.email),
     pubsub_service |-> ConnectionCheck(d.pubsub)]

\* Lines 160-166: the overall status
ReadinessStatus(d) ==
    LET checks == ReadinessChecks(d)
        unhealthy_checks == {k \in DOMAIN checks : checks[k] # "healthy"}
    IN [status |-> IF unhealthy_checks # {} THEN "unhealthy" ELSE "healthy",
        checks |-> checks,
        unhealthy_services |-> unhealthy_checks]

NoStatus == [status |-> "none", checks |-> <<>>, unhealthy_services |-> {}]

\* GET /health/readiness
readiness_check ==
    /\ health_status' = ReadinessStatus(deps)
    /\ UNCHANGED <<deps, endpointVars, ledgerVars, handlerVars, emailVars>>

\* --------------------------------------------------------- specifications
NoResponse ==
    [body |-> CHOOSE b \in Bodies : b.kind = "not_json", status |-> 0,
     scheduled |-> FALSE, storeUp |-> TRUE]

\* No delivery handled and no ledger call made yet, over a given store
InitOver(store, up) ==
    /\ endpoint_retry_counts = EmptyDict
    /\ tasks = EmptyBag
    /\ resp = NoResponse
    /\ deliveries = 0
    /\ done = {}
    /\ aiCalls = [m \in MsgIds |-> 0]
    /\ emailSends = [m \in MsgIds |-> 0]
    /\ consecFail = [m \in MsgIds |-> 0]
    /\ ledger = store
    /\ ledgerUp = up
    /\ call = [p \in Procs |-> IdleCall]
    /\ lastResult = [p \in Procs |-> NoResult]
    /\ calls = 0
    /\ marked = {}
    /\ retCount = [m \in MsgIds |-> 0]
    /\ retSet = [m \in MsgIds |-> {}]
    /\ clock = 0
    /\ inflight = [r \in Requests |-> NoRequest]

\* The ledger is durable: a service instance starts over whatever earlier
\* ledger calls left in the collection. A document that n calls of
\* check_and_increment wrote has attempts = n and version n, one more
\* write when mark_processed followed.
StoredAttempts == {1, MAX_ATTEMPTS}
StoredDocs ==
    {[attempts |-> n, status |-> "processing", version |-> n,
      processed_at |-> <<>>] : n \in StoredAttempts}
    \cup {[attempts |-> n, status |-> "processed", version |-> n + 1,
           processed_at |-> <<0>>] : n \in StoredAttempts}
StoredLedgers ==
    UNION {[ids -> StoredDocs] : ids \in SUBSET AssignedIds}

\* The ledger collection is empty: every message id is previously unseen
HealthIdle ==
    /\ deps = [settings |-> GoodSettings, auth |-> "healthy", genai |-> "connected",
               email |-> "connected", pubsub |-> "connected"]
    /\ health_status = NoStatus

\* No EmailStatus has been marked
EmailIdle ==
    email_status = [status |-> "pending", retry_count |-> 0,
                    max_retries |-> DEFAULT_MAX_RETRIES, sent_at |-> FALSE,
                    delivered_at |-> FALSE, error_message |-> "none"]

InitLedger == InitOver(EmptyDict, TRUE) /\ HealthIdle /\ EmailIdle

\* A service instance starts over a stored ledger
Init == \E store \in StoredLedgers : InitOver(store, TRUE) /\ HealthIdle /\ EmailIdle

TaskStates == {"queued", "normalized", "generated"}
TaskRecords ==
    [mid : MsgIds, client_data : JsonValues, pc : TaskStates,
     afterDone : BOOLEAN, ai : 0..1, profile : BOOLEAN]

NextEndpoint ==
    \/ \E body \in Bodies : handle_pubsub_push_notification(body)
    \/ \E failure \in StartFailures \cup {NoException} : BgNormalize(failure)
    \/ \E outcome \in StepOutcomes : BgGenerate(outcome)
    \/ \E outcome \in StepOutcomes : BgSend(outcome)
    \/ Restart

NextLedger ==
    \/ \E p \in Procs, m \in MsgIds : check_and_increment(p, m)
    \/ \E p \in Procs : CommitUpdate(p)
    \/ \E p \in Procs : RetryUpdate(p)
    \/ \E p \in Procs : AbortUpdate(p)
    \/ \E p \in Procs, m \in MsgIds : mark_processed(p, m)
    \/ StoreFail
    \/ StoreRecover

\* The service: deliveries and background work over the durable ledger,
\* whose store may become unreachable and reachable again
Next == NextEndpoint \/ StoreFail \/ StoreRecover

Spec == Init /\ [][Next]_vars

\* The ledger alone, under arbitrary concurrent callers
SpecLedger == InitLedger /\ [][NextLedger]_vars

\* The readiness endpoint, over every setting and service condition
InitHealth ==
    /\ InitOver(EmptyDict, TRUE)
    /\ deps \in DepsInputs
    /\ health_status = NoStatus
    /\ EmailIdle
NextHealth == readiness_check
SpecHealth == InitHealth /\ [][NextHealth]_vars

\* One process serving several failing deliveries at once
InitHandlers == InitOver(EmptyDict, TRUE) /\ HealthIdle /\ EmailIdle
NextHandlers ==
    \/ \E r \in Requests, body \in FailingBodies : ReceiveDelivery(r, body)
    \/ \E r \in Requests : ResumeHandler(r)
SpecHandlers == InitHandlers /\ [][NextHandlers]_vars

\* One EmailStatus object under any sequence of its mark_ methods
InitEmail ==
    /\ InitOver(EmptyDict, TRUE) /\ HealthIdle
    /\ email_status \in EmailStatusInputs
NextEmail ==
    \/ mark_sent
    \/ mark_delivered
    \/ \E error_message \in ErrorMessages : mark_failed(error_message)
SpecEmail == InitEmail /\ [][NextEmail]_vars

\* ================================================================ claims
\* What the last delivery handled was
Handled == deliveries > 0
HandledEnvelope == Handled /\ resp.body.kind = "envelope"
LastId == MessageIdOf(resp.body)
LastDecoded == DecodeData(resp.body.data)
\* the data member decoded to a JSON value (valid base64, UTF-8 and JSON)
LastDecodesOk == HandledEnvelope /\ LastDecoded.outcome = "ok"
\* ... and the value is one the handler can hand to the background task
LastIsWork == LastDecodesOk /\ ~UnwrapRaises(LastDecoded.value)
Recorded(m, n) ==
    m \in DOMAIN ledger /\ ledger[m].status = "processing" /\ ledger[m].attempts >= n

\* C1: once the unit of work of a message id has completed successfully,
\* no later delivery of that id starts another unit of work (AI call, email):
\* no background invocation is ever scheduled by a delivery that arrived
\* after the completion.
C1_NoWorkAfterCompletion == \A t \in BagToSet(tasks) : ~t.afterDone

\* C2: every check_and_increment(m) call that starts after a
\* mark_processed(m) has completed and that returns, returns -1.
C2_AlreadyDoneAfterMark ==
    \A p \in Procs :
        (lastResult[p].op = "check_and_increment" /\ lastResult[p].afterMark
            /\ lastResult[p].outcome = "returned")
        => lastResult[p].value = -1

\* C2 witness: a call that started after mark_processed returned -1 while
\* the document has been written by several earlier calls
C2_Witness ==
    \E p \in Procs :
        /\ lastResult[p].op = "check_and_increment" /\ lastResult[p].afterMark
        /\ lastResult[p].outcome = "returned" /\ lastResult[p].value = -1
        /\ ledger[lastResult[p].mid].attempts >= 2

\* C3: as long as no mark_processed(m) has completed, the attempt numbers
\* returned by the check_and_increment(m) calls, however they interleave,
\* are exactly 1..N for the N calls that returned (no duplicate, no gap),
\* and the stored attempts is N.
C3_AttemptsSerialize ==
    \A m \in MsgIds \ marked :
        /\ retSet[m] = 1..retCount[m]
        /\ IF m \in DOMAIN ledger THEN ledger[m].attempts = retCount[m]
                                  ELSE retCount[m] = 0

\* C3 witness: two calls on one id returned while a third, concurrent one
\* holds a snapshot the others have overwritten
C3_Witness ==
    \E m \in MsgIds \ marked, p \in Procs :
        /\ retCount[m] >= 2
        /\ call[p].pc = "commit" /\ call[p].mid = m
        /\ call[p].readVer < DocVersion(ledger, m)

\* C4: when the ledger holds MAX_ATTEMPTS recorded attempts for a message
\* id and no mark_processed, the next delivery of that id (with a payload
\* that decodes) is acknowledged and schedules no background work.
C4_BudgetEnforced ==
    [][\A m \in MsgIds :
        (Recorded(m, MAX_ATTEMPTS) /\ deliveries' = deliveries + 1
            /\ LastIsWork' /\ LastId' = m)
        => (IsAck(resp'.status) /\ ~resp'.scheduled)]_vars

C7_LedgerOutageNacked ==
    (LastIsWork /\ ~resp.storeUp) => (resp.status >= 500 /\ ~resp.scheduled)

\* C8: no message id is answered with a non-success status on
\* MAX_ENDPOINT_RETRIES consecutive deliveries: the MAX_ENDPOINT_RETRIES-th
\* consecutive failed delivery at the latest is acknowledged.
C8_RedeliveryBounded ==
    \A m \in MsgIds : consecFail[m] < MAX_ENDPOINT_RETRIES

\* C9: handling a delivery whose data decodes enqueues exactly one
\* background invocation, answers 204, and makes no AI call and no email
\* send itself.
C9_DecodedIsScheduled ==
    [][(deliveries' = deliveries + 1 /\ LastDecodesOk')
        => /\ resp'.status = HTTP_204_NO_CONTENT /\ resp'.scheduled
           /\ BagCardinality(tasks') = BagCardinality(tasks) + 1
           /\ aiCalls' = aiCalls /\ emailSends' = emailSends]_vars

\* C10: when a background invocation has completed normalization, AI
\* generation and report dispatch, the ledger record of its message id has
\* status processed.
C10_CompletionMarksProcessed ==
    \A m \in done : m \in DOMAIN ledger /\ ledger[m].status = "processed"

\* Sum of a counter map over a set of ids
RECURSIVE SumOver(_, _)
SumOver(f, S) ==
    IF S = {} THEN 0
    ELSE LET m == CHOOSE x \in S : TRUE IN f[m] + SumOver(f, S \ {m})

\* C11: a background invocation never retries a step. No invocation makes
\* more than one AI generation call, and one that holds a profile has made
\* exactly one; all invocations together make no more AI calls than
\* deliveries were handled and no more email sends than AI calls; and the
\* step that completes an invocation successfully is its one email send,
\* made after its one AI call.
C11_NoStepRetried ==
    [][/\ \A t \in BagToSet(tasks') : t.ai <= 1 /\ (t.profile => t.ai = 1)
       /\ SumOver(aiCalls', MsgIds) <= deliveries'
       /\ SumOver(emailSends', MsgIds) <= SumOver(aiCalls', MsgIds)
       /\ done' # done =>
            \E t \in BagToSet(tasks) :
                /\ t.ai = 1 /\ tasks' = FinishTask(t)
                /\ done' = done \cup {t.mid}
                /\ emailSends' = [emailSends EXCEPT ![t.mid] = @ + 1]
                /\ aiCalls' = aiCalls]_vars

\* C11 witness: the one delivery handled led to an invocation all of whose
\* steps succeeded, with one AI call and one email send
C11_Witness ==
    \E m \in done : deliveries = 1 /\ aiCalls[m] = 1 /\ emailSends[m] = 1

\* C12: however the redeliveries of one message id interleave with the
\* invocations still running for it, the message triggers at most one
\* duplicate pair of side effects: at most two AI generation calls and at
\* most two email sends in total.
C12_DuplicatesBounded ==
    \A m \in MsgIds : aiCalls[m] <= 2 /\ emailSends[m] <= 2

\* C13: under any interleaving of check_and_increment and mark_processed
\* calls, no step removes a ledger record, lowers its attempts, or takes
\* its status from processed back to processing.
C13_RecordMonotonic ==
    [][\A m \in DOMAIN ledger :
           /\ m \in DOMAIN ledger'
           /\ ledger'[m].attempts >= ledger[m].attempts
           /\ ledger'[m].status \in {"processing", "processed"}
           /\ ledger[m].status = "processed" => ledger'[m].status = "processed"]_vars

\* C13 witness: a record written by two calls is processed while a
\* check_and_increment transaction that read it before the mark is still
\* waiting to commit
C13_Witness ==
    \E m \in marked, p \in Procs :
        /\ ledger[m].status = "processed" /\ ledger[m].attempts >= 2
        /\ call[p].pc = "commit" /\ call[p].mid = m
        /\ call[p].readVer < DocVersion(ledger, m)

\* A step in which a mark_processed call wrote the record of m: only
\* mark_processed writes the ledger in the step that starts a call
MarkWrote(m) ==
    /\ calls' = calls + 1
    /\ m \in DOMAIN ledger /\ ledger'[m] # ledger[m]

\* C14: mark_processed is idempotent. A mark_processed for an id whose
\* record is already processed leaves the record's fields exactly as the
\* first call left them: status processed, attempts unchanged, and
\* processed_at not re-stamped.
C14_MarkIdempotent ==
    [][\A m \in MsgIds :
           (MarkWrote(m) /\ ledger[m].status = "processed") =>
               /\ ledger'[m].status = "processed"
               /\ ledger'[m].attempts = ledger[m].attempts
               /\ ledger'[m].processed_at = ledger[m].processed_at]_vars

\* C15: a delivery without messageId whose payload decodes to a value the
\* handler can schedule never ends in an unhandled exception: it is
\* answered with a success status and exactly one background invocation is
\* scheduled, under the placeholder identity "unknown", with the decoded
\* payload.
C15_NoIdScheduledAsUnknown ==
    [][(deliveries' = deliveries + 1 /\ LastIsWork' /\ resp'.body.messageId = NoId)
        => /\ IsAck(resp'.status) /\ resp'.scheduled
           /\ \E t \in BagToSet(tasks') :
                /\ t.mid = "unknown" /\ t.pc = "queued"
                /\ t.client_data = Unwrap(DecodeData(resp'.body.data).value)
                /\ tasks' = tasks (+) SetToBag({t})]_vars

\* C15 witness: a delivery without messageId was answered 204 and its
\* invocation is queued under "unknown" next to work of an assigned id
C15_Witness ==
    /\ LastIsWork /\ resp.body.messageId = NoId
    /\ resp.status = HTTP_204_NO_CONTENT /\ resp.scheduled
    /\ \E t, u \in BagToSet(tasks) :
        t.mid = "unknown" /\ t.pc = "queued" /\ u.mid \in AssignedIds

\* The data member of a delivery is missing, or is base64 of text that is
\* not JSON
NoDataOrNotJson(body) ==
    /\ body.kind = "envelope"
    /\ \/ body.data.enc = "absent"
       \/ body.data.enc = "base64" /\ body.data.bytes = "utf8" /\ body.data.text = "bad_json"

C17_ReadyWhenAllPass ==
    (/\ health_status.status # NoStatus.status
     /\ deps.settings = GoodSettings /\ deps.auth = "healthy"
     /\ deps.genai = "connected" /\ deps.email = "connected"
     /\ deps.pubsub = "connected")
    => health_status.status = "healthy"

\* A step in which an invocation for m ended at a failed AI generation call
\* or at a failed email send
FailedStep(m) ==
    \/ aiCalls'[m] > aiCalls[m] /\ BagCardinality(tasks') < BagCardinality(tasks)
    \/ emailSends'[m] > emailSends[m] /\ m \notin done'

\* C18: when a step of a background invocation fails, the invocation does
\* not mark the message processed and the failure does not change the
\* ledger: the record of the message is left with status processing and
\* the attempts that its deliveries recorded (at least 1).
C18_FailureKeepsProcessing ==
    [][\A m \in MsgIds :
           FailedStep(m) =>
               /\ ledger' = ledger
               /\ m \in DOMAIN ledger
               /\ ledger[m].status = "processing" /\ ledger[m].attempts >= 1]_vars

\* C19: no failure inside a background invocation (service lookup,
\* normalization, AI generation, email dispatch) propagates out of
\* process_client_profile_generation: every invocation in flight is queued,
\* normalized or generated, and none has ended with an exception leaving it.
C19_FailuresContained == BagToSet(tasks) \subseteq TaskRecords

\* C19 witness: the one invocation made so far ended at a failed email
\* send and has returned
C19_Witness ==
    \E m \in MsgIds \ done :
        /\ deliveries = 1 /\ aiCalls[m] = 1 /\ emailSends[m] = 1
        /\ tasks = EmptyBag

\* C20: within one background invocation the steps run in the order
\* normalize, AI profile generation, report dispatch. An AI call is made
\* by an invocation whose normalization has returned and that has made no
\* AI call yet; an email is sent by an invocation that holds the profile
\* its AI call returned, as its last step; and an invocation that ends at
\* a failed AI call sends no email.
C20_StepsInOrder ==
    [][/\ \A t \in BagToSet(tasks') :
            /\ t.profile <=> t.pc = "generated"
            /\ t.pc = "queued" => t.ai = 0
       /\ \A m \in MsgIds :
            /\ aiCalls'[m] > aiCalls[m] =>
                /\ \E t \in BagToSet(tasks) :
                        t.mid = m /\ t.pc = "normalized" /\ t.ai = 0
                /\ emailSends' = emailSends
            /\ emailSends'[m] > emailSends[m] =>
                \E t \in BagToSet(tasks) :
                    /\ t.mid = m /\ t.pc = "generated" /\ t.profile
                    /\ tasks' = FinishTask(t)]_vars

\* C20 witness: of two invocations for one id, one ran all three steps and
\* the other ended at its AI call, so two AI calls led to one email
C20_Witness ==
    \E m \in done :
        /\ deliveries = 2 /\ aiCalls[m] = 2 /\ emailSends[m] = 1
        /\ tasks = EmptyBag

\* ------------------------------------------------------------------ C21
\* The process whose ledger call ends in this step with the given outcome
Ends(p, op, outcome) ==
    /\ lastResult'[p] # lastResult[p]
    /\ lastResult'[p].op = op
    /\ lastResult'[p].outcome = outcome

\* C21: a check_and_increment or mark_processed call that fails (the store
\* is unreachable, or the transaction cannot be committed) leaves every
\* ledger record exactly as it was: there is no partial write.
C21_FailureWritesNothing ==
    [][\A p \in Procs :
          Ends(p, "check_and_increment", "raised") \/ Ends(p, "mark_processed", "raised")
              => ledger' = ledger]_vars

\* A transactional call has raised over a record that exists
C21_Witness ==
    \E p \in Procs :
        /\ lastResult[p].op = "check_and_increment"
        /\ lastResult[p].outcome = "raised"
        /\ lastResult[p].mid \in DOMAIN ledger
        /\ ledger[lastResult[p].mid].attempts >= 1

\* ------------------------------------------------------------------ C27
\* C27: a check_and_increment call that returns AlreadyDone (-1) leaves the
\* ledger record unchanged: attempts, status and timestamps are the same
\* before and after the call.
C27_AlreadyDoneWritesNothing ==
    [][\A p \in Procs :
          Ends(p, "check_and_increment", "returned") /\ lastResult'[p].value = -1
              => /\ ledger' = ledger
                 /\ ledger[lastResult'[p].mid].status = "processed"]_vars

\* A call has returned -1 for a processed record
C27_Witness ==
    \E p \in Procs :
        /\ lastResult[p].op = "check_and_increment"
        /\ lastResult[p].outcome = "returned"
        /\ lastResult[p].value = -1
        /\ lastResult[p].mid \in DOMAIN ledger
        /\ ledger[lastResult[p].mid].status = "processed"

\* ------------------------------------------------------------------ C28
\* C28: mark_processed for a message id without a ledger record fails and
\* creates no record; a record is only ever created by the commit of a
\* check_and_increment, as attempt 1 in status processing.
C28_MarkNeverCreates ==
    [][/\ \A p \in Procs :
              /\ lastResult'[p] # lastResult[p]
              /\ lastResult'[p].op = "mark_processed"
              /\ lastResult'[p].mid \notin DOMAIN ledger
              => /\ lastResult'[p].outcome = "raised"
                 /\ ledger' = ledger
       /\ \A m \in DOMAIN ledger' \ DOMAIN ledger :
              /\ ledger'[m].attempts = 1
              /\ ledger'[m].status = "processing"
              /\ \E p \in Procs :
                    /\ call[p].pc = "commit"
                    /\ call[p].mid = m
                    /\ call'[p].pc = "idle"
                    /\ lastResult'[p] = Result("check_and_increment", m, "returned", 1,
                                               call[p].afterMark)]_vars

\* mark_processed has raised for a message that has no record, with the
\* store reachable
C28_Witness ==
    \E p \in Procs :
        /\ lastResult[p].op = "mark_processed"
        /\ lastResult[p].outcome = "raised"
        /\ lastResult[p].mid \notin DOMAIN ledger
        /\ ledgerUp

\* ------------------------------------------------------------------ C22
\* The payload is the wrapper {"data": {...}}: its "data" member is a mapping
IsWrapper(v) == v.type = "dict" /\ v.data # <<>> /\ v.data[1].type = "dict"
\* What the background processor is to receive for a mapping payload
FormOf(v) == IF IsWrapper(v) THEN v.data[1] ELSE v

\* C22: for every decoded payload that is a mapping, the background
\* processor receives the inner mapping when the payload is wrapped as
\* {"data": {...}} and the payload itself when the form fields are given
\* directly.
C22_FormReachesProcessor ==
    [][(deliveries' = deliveries + 1 /\ LastDecodesOk' /\ LastDecoded'.value.type = "dict"
        /\ resp'.scheduled)
        => \E t \in BagToSet(tasks') :
                /\ t.mid = LastId' /\ t.pc = "queued"
                /\ t.client_data = FormOf(LastDecoded'.value)
                /\ tasks' = tasks (+) SetToBag({t})]_vars

\* ------------------------------------------------------------------ C23
\* C23: within one process every entry stored in endpoint_retry_counts is
\* between 1 and MAX_ENDPOINT_RETRIES - 1, so no delivery finds the count of
\* its message id at the limit: the early-acknowledge branch at the top of
\* the handler (line 67) is never taken.
C23_CountsBelowLimit ==
    [][/\ \A k \in DOMAIN endpoint_retry_counts' :
              endpoint_retry_counts'[k] \in 1..(MAX_ENDPOINT_RETRIES - 1)
       /\ (deliveries' = deliveries + 1 /\ HandledEnvelope')
              => get_endpoint_retry_count(endpoint_retry_counts, LastId') < MAX_ENDPOINT_RETRIES]_vars

\* Both ends of the range are stored at once: one id has failed once,
\* another MAX_ENDPOINT_RETRIES - 1 times
C23_Witness ==
    \E a, b \in DOMAIN endpoint_retry_counts :
        /\ endpoint_retry_counts[a] = 1
        /\ endpoint_retry_counts[b] = MAX_ENDPOINT_RETRIES - 1

\* ------------------------------------------------------------------ C24
\* C24: right after the endpoint has answered 204 to a delivery of message
\* id m (work scheduled, or retry limit reached) endpoint_retry_counts has no
\* entry for m; so an entry never counts more than the failures of m since
\* its last acknowledgment.
C24_AckClearsCounter ==
    [][/\ (deliveries' = deliveries + 1 /\ HandledEnvelope'
           /\ resp'.status = HTTP_204_NO_CONTENT)
              => LastId' \notin DOMAIN endpoint_retry_counts'
       /\ \A m \in DOMAIN endpoint_retry_counts' :
              endpoint_retry_counts'[m] <= consecFail'[m]]_vars

\* The retry limit was reached: the third delivery was acknowledged without
\* scheduling work and the entry is gone
C24_Witness ==
    /\ HandledEnvelope /\ deliveries >= MAX_ENDPOINT_RETRIES
    /\ resp.status = HTTP_204_NO_CONTENT /\ ~resp.scheduled
    /\ LastId \notin DOMAIN endpoint_retry_counts

\* ------------------------------------------------------------------ C25
\* C25: every delivery answered with a 5xx status increments the in-memory
\* retry counter of its message id by exactly one; no 5xx answer is produced
\* without such an increment, also for a body that is valid JSON but not an
\* envelope object.
C25_ServerErrorCounted ==
    [][(deliveries' = deliveries + 1 /\ resp'.status \in 500..599)
        => get_endpoint_retry_count(endpoint_retry_counts', LastId')
            = get_endpoint_retry_count(endpoint_retry_counts, LastId') + 1]_vars

\* ------------------------------------------------------------------ C26
\* Two deliveries are of the same message when they carry the same
\* messageId; deliveries without messageId are of the same message only
\* when they are the same body
SameMessage(a, b) ==
    IF a.messageId = NoId \/ b.messageId = NoId THEN a = b ELSE a.messageId = b.messageId

\* C26: retry accounting is isolated per delivery identity: handling a
\* delivery changes only the retry-counter entry of its own message and
\* leaves every other message's entry unchanged, also when the delivery and
\* the one whose failure made the entry are two different messages that both
\* lack a messageId.
C26_AccountingIsolated ==
    [][(deliveries' = deliveries + 1 /\ HandledEnvelope')
        => /\ \A k \in (DOMAIN endpoint_retry_counts \cup DOMAIN endpoint_retry_counts') \ {LastId'} :
                /\ k \in DOMAIN endpoint_retry_counts /\ k \in DOMAIN endpoint_retry_counts'
                /\ endpoint_retry_counts'[k] = endpoint_retry_counts[k]
           /\ (/\ HandledEnvelope /\ resp.status = HTTP_500_INTERNAL_SERVER_ERROR
               /\ LastId \in DOMAIN endpoint_retry_counts
               /\ ~SameMessage(resp.body, resp'.body))
                => /\ LastId \in DOMAIN endpoint_retry_counts'
                   /\ endpoint_retry_counts'[LastId] = endpoint_retry_counts[LastId]]_vars

\* ------------------------------------------------------------------ C29
\* The requests of message id m that have been answered
Answered(m) ==
    {r \in Requests : inflight[r].pc = "done" /\ MessageIdOf(inflight[r].body) = m}

\* C29: within one process no retry-counter update of concurrently handled
\* failing deliveries of one message id is lost: counted from no entry, the
\* j-th failure to be answered observes the count j (counting again from 1
\* after the limit), the stored count is the number of failures since the
\* last acknowledgment, and exactly the failures that observe
\* MAX_ENDPOINT_RETRIES are acknowledged, the others answered 500.
C29_NoLostUpdate ==
    \A m \in MsgIds :
        LET F == Cardinality(Answered(m))
        IN /\ get_endpoint_retry_count(endpoint_retry_counts, m) = F % MAX_ENDPOINT_RETRIES
           /\ \A c \in 1..MAX_ENDPOINT_RETRIES :
                Cardinality({r \in Answered(m) : inflight[r].new_count = c})
                    = Cardinality({j \in 1..F : ((j - 1) % MAX_ENDPOINT_RETRIES) + 1 = c})
           /\ \A r \in Answered(m) :
                inflight[r].status = IF inflight[r].new_count = MAX_ENDPOINT_RETRIES
                                     THEN HTTP_204_NO_CONTENT
                                     ELSE HTTP_500_INTERNAL_SERVER_ERROR

\* A delivery that entered the handler when its id had no entry was the
\* MAX_ENDPOINT_RETRIES-th failure by the time it resumed, and was
\* acknowledged: the deliveries overlapped
C29_Witness ==
    \E r \in Requests :
        /\ inflight[r].pc = "done"
        /\ inflight[r].atEntry = EmptyDict
        /\ inflight[r].new_count = MAX_ENDPOINT_RETRIES
        /\ inflight[r].status = HTTP_204_NO_CONTENT

\* ------------------------------------------------------------------ C30
\* C30: an EmailStatus whose last transition is mark_delivered is reported
\* final by is_final_status(), after any preceding sequence of mark_sent and
\* mark_failed calls. (No EmailStatus starts as delivered here, so the status
\* is delivered exactly when mark_delivered was the last transition.)
C30_DeliveredIsFinal ==
    email_status.status = "delivered" => is_final_status(email_status)

=============================================================================
